---- MODULE Spec2Model ----
(***************************************************************************)
(* cache-any: the value codec (src/src/cacheable.rs) and the memory        *)
(* backend (src/src/caches/memory.rs), as a state machine.                 *)
(*                                                                         *)
(* A byte is a number in 0..255, a payload a sequence of bytes. A typed    *)
(* value is a record [ty, num, str]: an integer keeps its number in num,   *)
(* a bool is 0/1 in num, a String keeps its chars (code points) in str.    *)
(***************************************************************************)
EXTENDS Integers, Sequences, FiniteSets, TLC

VARIABLES heap, handle, pc, frame, res, last, nops, codec, remote

vars == <<heap, handle, pc, frame, res, last, nops, codec, remote>>

----------------------------------------------------------------------------
(* Bounds of the model *)

\* number of tasks, each holding its own clone of the handle
NumTasks == 2

\* number of cache operations issued in one run
MaxOps == 3

Tasks == 1..NumTasks

----------------------------------------------------------------------------
(* Typed values *)

Num(ty, n) == [ty |-> ty, num |-> n, str |-> <<>>]

Str(s) == [ty |-> "String", num |-> 0, str |-> s]

Bool(b) == [ty |-> "bool", num |-> IF b THEN 1 ELSE 0, str |-> <<>>]

\* the absence of a value
NoVal == [ty |-> "none", num |-> 0, str |-> <<>>]

IntTypes == {"u8", "i8", "u16", "i16"}

Bits(ty) == IF ty \in {"u8", "i8"} THEN 8 ELSE 16

Signed(ty) == ty \in {"i8", "i16"}

\* the outcome of a decode: a value, an error result, or a panic
Decoded(v) == [kind |-> "ok", v |-> v]

DecodeErr == [kind |-> "err", v |-> NoVal]

DecodePanic == [kind |-> "panic", v |-> NoVal]

----------------------------------------------------------------------------
(* Codec: integers *)

\* width of the encoding of every integer, in bytes
NumBytes == 16

\* write_u128::<BigEndian>: byte i of the 128-bit widening of n
BigEndian(ty, n) ==
    LET w    == Bits(ty) \div 8
        u    == n % (2 ^ Bits(ty))
        fill == IF n < 0 THEN 255 ELSE 0
    IN  [i \in 1..NumBytes |->
            IF i <= NumBytes - w THEN fill
            ELSE (u \div (256 ^ (NumBytes - i))) % 256]

\* the same bytes, least significant first
LittleEndian(ty, n) ==
    [i \in 1..NumBytes |-> BigEndian(ty, n)[NumBytes + 1 - i]]

numeric_to_bytes(ty, n) == BigEndian(ty, n)

\* the low w bytes of the first 16, as a number
RECURSIVE LowBytes(_, _)
LowBytes(bytes, w) ==
    IF w = 0 THEN 0
    ELSE (bytes[NumBytes + 1 - w] * (256 ^ (w - 1))) + LowBytes(bytes, w - 1)

\* num as $ty: keep the low bits, reinterpret by the sign of the type
Truncate(ty, bytes) ==
    LET low == LowBytes(bytes, Bits(ty) \div 8)
    IN  IF Signed(ty) /\ low >= 2 ^ (Bits(ty) - 1)
        THEN low - (2 ^ Bits(ty))
        ELSE low

\* read_u128 on a short input fails, and the result is unwrapped
numeric_from_bytes(ty, bytes) ==
    IF Len(bytes) < NumBytes THEN DecodePanic
    ELSE Decoded(Num(ty, Truncate(ty, bytes)))

----------------------------------------------------------------------------
(* Codec: the integers wider than the numbers of the model. A value of such
   a type is kept as its two's complement bytes, most significant first. *)

WideTypes == {"u32", "i32", "u64", "i64", "u128", "i128", "usize", "isize"}

Wide(ty, native) == [ty |-> ty, num |-> 0, str |-> native]

\* the width of the type in bytes; usize and isize are those of a 64-bit target
WideBytes(ty) ==
    IF ty \in {"u32", "i32"} THEN 4
    ELSE IF ty \in {"u128", "i128"} THEN 16
    ELSE 8

WideSigned(ty) == ty \in {"i32", "i64", "i128", "isize"}

\* a widening that never extends the sign
as_u128_zero(ty, native) ==
    [i \in 1..(NumBytes - Len(native)) |-> 0] \o native

\* *self as u128: sign extension for a signed type, zero extension otherwise
as_u128(ty, native) ==
    LET fill == IF WideSigned(ty) /\ native[1] >= 128 THEN 255 ELSE 0
    IN  [i \in 1..(NumBytes - Len(native)) |-> fill] \o native

\* the 128 bits written least significant byte first
wide_to_bytes_le(ty, native) ==
    [i \in 1..NumBytes |-> as_u128(ty, native)[NumBytes + 1 - i]]

\* write_u128::<BigEndian>(num)
wide_to_bytes(ty, native) == as_u128(ty, native)

\* read_u128::<BigEndian>().unwrap(), then num as $ty: the low bytes
wide_from_bytes(ty, bytes) ==
    IF Len(bytes) < NumBytes THEN DecodePanic
    ELSE Decoded(Wide(ty, SubSeq(bytes, NumBytes - WideBytes(ty) + 1, NumBytes)))

----------------------------------------------------------------------------
(* Codec: bool *)

\* the literals 1 and 0 are i32; their widening is that of any integer type
bool_to_bytes(n) ==
    IF n = 1 THEN numeric_to_bytes("i16", 1) ELSE numeric_to_bytes("i16", 0)

\* a decode that looks at the last byte alone
bool_from_last(bytes) ==
    Decoded(Bool(bytes # <<>> /\ bytes[Len(bytes)] # 0))

bool_from_bytes(bytes) ==
    Decoded(Bool(~(\A i \in 1..Len(bytes) : bytes[i] = 0)))

----------------------------------------------------------------------------
(* Codec: String, as UTF-8 *)

Utf8Char(cp) ==
    IF cp < 128 THEN <<cp>>
    ELSE IF cp < 2048 THEN <<192 + (cp \div 64), 128 + (cp % 64)>>
    ELSE IF cp < 65536
         THEN <<224 + (cp \div 4096), 128 + ((cp \div 64) % 64),
                128 + (cp % 64)>>
    ELSE <<240 + (cp \div 262144), 128 + ((cp \div 4096) % 64),
           128 + ((cp \div 64) % 64), 128 + (cp % 64)>>

\* str::as_bytes
RECURSIVE as_bytes(_)
as_bytes(s) ==
    IF s = <<>> THEN <<>> ELSE Utf8Char(Head(s)) \o as_bytes(Tail(s))

Cont(bytes, i) == i <= Len(bytes) /\ bytes[i] \in 128..191

Low6(b) == b - 128

\* the length of the well-formed sequence that starts bytes, 0 if none does
Utf8Width(bytes) ==
    LET b == bytes[1]
        second(lo, hi) == Len(bytes) >= 2 /\ bytes[2] \in lo..hi
    IN  IF b < 128 THEN 1
        ELSE IF b \in 194..223 THEN (IF Cont(bytes, 2) THEN 2 ELSE 0)
        ELSE IF b = 224
             THEN (IF second(160, 191) /\ Cont(bytes, 3) THEN 3 ELSE 0)
        ELSE IF b \in (225..236) \cup (238..239)
             THEN (IF Cont(bytes, 2) /\ Cont(bytes, 3) THEN 3 ELSE 0)
        ELSE IF b = 237
             THEN (IF second(128, 159) /\ Cont(bytes, 3) THEN 3 ELSE 0)
        ELSE IF b = 240
             THEN (IF second(144, 191) /\ Cont(bytes, 3) /\ Cont(bytes, 4)
                   THEN 4 ELSE 0)
        ELSE IF b \in 241..243
             THEN (IF Cont(bytes, 2) /\ Cont(bytes, 3) /\ Cont(bytes, 4)
                   THEN 4 ELSE 0)
        ELSE IF b = 244
             THEN (IF second(128, 143) /\ Cont(bytes, 3) /\ Cont(bytes, 4)
                   THEN 4 ELSE 0)
        ELSE 0

Utf8CodePoint(bytes, n) ==
    IF n = 1 THEN bytes[1]
    ELSE IF n = 2 THEN ((bytes[1] - 192) * 64) + Low6(bytes[2])
    ELSE IF n = 3
         THEN ((bytes[1] - 224) * 4096) + (Low6(bytes[2]) * 64)
              + Low6(bytes[3])
    ELSE ((bytes[1] - 240) * 262144) + (Low6(bytes[2]) * 4096)
         + (Low6(bytes[3]) * 64) + Low6(bytes[4])

\* String::from_utf8: the chars of bytes, or an error
RECURSIVE from_utf8(_)
from_utf8(bytes) ==
    IF bytes = <<>> THEN [ok |-> TRUE, chars |-> <<>>]
    ELSE LET n == Utf8Width(bytes)
         IN  IF n = 0 THEN [ok |-> FALSE, chars |-> <<>>]
             ELSE LET rest == from_utf8(SubSeq(bytes, n + 1, Len(bytes)))
                  IN  IF rest.ok
                      THEN [ok |-> TRUE,
                            chars |-> <<Utf8CodePoint(bytes, n)>> \o rest.chars]
                      ELSE rest

string_to_bytes(s) == as_bytes(s)

string_from_bytes(bytes) ==
    LET r == from_utf8(bytes)
    IN  IF r.ok THEN Decoded(Str(r.chars)) ELSE DecodeErr

----------------------------------------------------------------------------
(* Cacheable *)

BaseTypes == IntTypes \cup WideTypes \cup {"String", "bool"}

\* the type Arc<T>
ArcOf(ty) == "Arc<" \o ty \o ">"

ArcTypes == {ArcOf(b) : b \in BaseTypes}

IsArc(ty) == ty \in ArcTypes

ArcInner(ty) == CHOOSE b \in BaseTypes : ArcOf(b) = ty

\* Arc::new(v)
ArcNew(v) == [v EXCEPT !.ty = ArcOf(v.ty)]

\* self.as_ref()
as_ref(v) == [v EXCEPT !.ty = ArcInner(v.ty)]

RECURSIVE to_bytes(_)
to_bytes(v) ==
    IF IsArc(v.ty) THEN to_bytes(as_ref(v))
    ELSE IF v.ty = "String" THEN string_to_bytes(v.str)
    ELSE IF v.ty = "bool" THEN bool_to_bytes(v.num)
    ELSE IF v.ty \in WideTypes THEN wide_to_bytes(v.ty, v.str)
    ELSE numeric_to_bytes(v.ty, v.num)

RECURSIVE from_bytes(_, _)
from_bytes(ty, bytes) ==
    IF IsArc(ty)
    THEN LET d == from_bytes(ArcInner(ty), bytes)
         IN  IF d.kind = "ok" THEN Decoded(ArcNew(d.v)) ELSE d
    ELSE IF ty = "String" THEN string_from_bytes(bytes)
    ELSE IF ty = "bool" THEN bool_from_bytes(bytes)
    ELSE IF ty \in WideTypes THEN wide_from_bytes(ty, bytes)
    ELSE numeric_from_bytes(ty, bytes)

\* hex::encode: two lowercase digits a byte, as chars
HexDigit(n) == IF n < 10 THEN 48 + n ELSE 87 + n

\* an encoding that drops the leading zero of a byte
RECURSIVE hex_encode_short(_)
hex_encode_short(bytes) ==
    IF bytes = <<>> THEN <<>>
    ELSE (IF Head(bytes) < 16 THEN <<HexDigit(Head(bytes))>>
          ELSE <<HexDigit(Head(bytes) \div 16), HexDigit(Head(bytes) % 16)>>)
         \o hex_encode_short(Tail(bytes))

RECURSIVE hex_encode(_)
hex_encode(bytes) ==
    IF bytes = <<>> THEN <<>>
    ELSE <<HexDigit(Head(bytes) \div 16), HexDigit(Head(bytes) % 16)>>
         \o hex_encode(Tail(bytes))

\* the value of a hex digit of either case, -1 for any other char
HexVal(c) ==
    IF c \in 48..57 THEN c - 48
    ELSE IF c \in 97..102 THEN c - 87
    ELSE IF c \in 65..70 THEN c - 55
    ELSE -1

\* hex::decode: an error on an odd length or on a char that is no digit
RECURSIVE hex_decode(_)
hex_decode(chars) ==
    IF chars = <<>> THEN [ok |-> TRUE, bytes |-> <<>>]
    ELSE IF Len(chars) % 2 = 1 THEN [ok |-> FALSE, bytes |-> <<>>]
    ELSE IF HexVal(chars[1]) < 0 \/ HexVal(chars[2]) < 0
         THEN [ok |-> FALSE, bytes |-> <<>>]
    ELSE LET rest == hex_decode(SubSeq(chars, 3, Len(chars)))
         IN  IF rest.ok
             THEN [ok |-> TRUE,
                   bytes |-> <<(HexVal(chars[1]) * 16) + HexVal(chars[2])>>
                             \o rest.bytes]
             ELSE rest

\* hex::encode(self.to_bytes())
to_hex(v) == hex_encode(to_bytes(v))

\* let bytes = hex::decode(hex)?; Self::from_bytes(&bytes)
from_hex(ty, chars) ==
    LET b == hex_decode(chars)
    IN  IF b.ok THEN from_bytes(ty, b.bytes) ELSE DecodeErr

----------------------------------------------------------------------------
(* Inputs *)

\* the keys "a" and "b", as chars
Keys == {<<97>>, <<98>>}

\* the values set stores: 200u8, 258u16, "\u{e9}"
Values == {Num("u8", 200), Num("u16", 258), Str(<<233>>)}

\* the types get asks for
Types == {"u8", "u16", "String"}

\* Option<T>
None == <<>>

Some(x) == <<x>>

----------------------------------------------------------------------------
(* Inner: HashMap<Vec<u8>, Vec<u8>>, a set of entries *)

Entry(k, v) == [key |-> k, val |-> v]

contains_key(m, k) == \E e \in m : e.key = k

map_get(m, k) ==
    IF contains_key(m, k)
    THEN Some((CHOOSE e \in m : e.key = k).val)
    ELSE None

\* an insert that keeps the entry it should replace
map_insert_keep(m, k, v) == m \cup {Entry(k, v)}

\* an insert that empties the map first
map_insert_alone(m, k, v) == {Entry(k, v)}

map_insert(m, k, v) == {e \in m : e.key # k} \cup {Entry(k, v)}

\* a remove that removes nothing
map_remove_nothing(m, k) == m

map_remove(m, k) == {e \in m : e.key # k}

map_len(m) == Cardinality(m)

\* the slot of k while v is being written over old: v's first half is in place
Partial(old, v) ==
    LET h == Len(v) \div 2
    IN  SubSeq(v, 1, h) \o SubSeq(old, h + 1, Len(old))

map_insert_begin(m, k, v) ==
    LET old == IF contains_key(m, k) THEN map_get(m, k)[1] ELSE <<>>
    IN  map_insert(m, k, Partial(old, v))

----------------------------------------------------------------------------
(* Arc<RwLock<Inner>> *)

\* RwLock::new(Inner { map: HashMap::with_capacity(cap) }); waiters is the
\* queue of the tasks that wait for the lock, in the order they asked for it
NewStore == [map |-> {}, readers |-> {}, writers |-> {}, waiters |-> <<>>]

\* a read granted whoever holds the lock
can_read_always(s) == TRUE

\* RwLock::read is granted while no writer holds the lock
can_read(s) == s.writers = {}

\* a write granted while another writer holds the lock
can_write_shared(s) == s.readers = {}

\* RwLock::write is granted while nobody holds the lock
can_write(s) == s.writers = {} /\ s.readers = {}

\* a clone that copies the map into an allocation of its own
clone_deep(hp, p) ==
    [heap |-> Append(hp, [NewStore EXCEPT !.map = hp[p].map]),
     ptr |-> Len(hp) + 1]

\* #[derive(Clone)] on MemoryCache: Arc::clone, the same allocation
clone(hp, p) == [heap |-> hp, ptr |-> p]

----------------------------------------------------------------------------
(* State *)

\* heap[p]: the allocation an Arc points to
\* handle[t]: the Arc held by task t's MemoryCache, None before it is cloned
\* pc[t], frame[t]: where task t is in its call, and the call's locals
\* res: the latest call to return: its task, its arguments, its result
\*      (kind, val, n) and what it found: the payload it read or replaced
\*      (raw), whether
\*      the key was stored (had), the latest write to the key (saw), the
\*      number of keys the latest writes left stored (cnt)
\* last[k]: the value of the latest completed write to key k and its task
\* nops: the number of calls issued

\* codec: a value on its way through the codec, outside any cache
\* remote: the store behind a RedisCache or a MySqlCache, and its connection

NoCodec == [step |-> "none"]

NoRemote == [backend |-> "none"]

NoFrame == [key |-> <<>>, ty |-> "none", val |-> None, bytes |-> <<>>, tmp |-> {}]

NoWrite == [val |-> None, by |-> {}]

NoRes ==
    [task |-> {}, op |-> "none", key |-> <<>>, ty |-> "none", kind |-> "none",
     val |-> None, n |-> 0, raw |-> None, had |-> FALSE, saw |-> NoWrite,
     cnt |-> 0]

Store(t) == heap[handle[t][1]]

Ready(t) == handle[t] # None /\ pc[t] = "idle" /\ nops < MaxOps

\* the keys the latest writes left present
Live == {k \in Keys : last[k].val # None}

\* MemoryCache::new(), held by task 1
Init ==
    /\ heap = <<NewStore>>
    /\ handle = [t \in Tasks |-> IF t = 1 THEN Some(1) ELSE None]
    /\ pc = [t \in Tasks |-> "idle"]
    /\ frame = [t \in Tasks |-> NoFrame]
    /\ res = NoRes
    /\ last = [k \in Keys |-> NoWrite]
    /\ nops = 0
    /\ codec = NoCodec
    /\ remote = NoRemote

\* let nc = cache.clone(), handed to task u
Clone(t, u) ==
    /\ handle[t] # None /\ handle[u] = None
    /\ LET c == clone(heap, handle[t][1])
       IN  /\ heap' = c.heap
           /\ handle' = [handle EXCEPT ![u] = Some(c.ptr)]
    /\ UNCHANGED <<pc, frame, res, last, nops>>
    /\ UNCHANGED <<codec, remote>>

\* read().await and write().await complete when the lock is granted; a call
\* that waits has changed nothing yet, so a call and the grant of its lock are
\* one step. The grants allowed here include every grant tokio's fair queue
\* allows.
Acquire(t, mode) ==
    LET p == handle[t][1]
    IN  IF mode = "read"
        THEN /\ can_read(heap[p])
             /\ heap' = [heap EXCEPT ![p].readers = @ \cup {t}]
        ELSE /\ can_write(heap[p])
             /\ heap' = [heap EXCEPT ![p].writers = @ \cup {t}]

\* the store once task t's guard is dropped, its map being m
Released(t, m) ==
    [Store(t) EXCEPT !.map = m, !.readers = @ \ {t}, !.writers = @ \ {t}]

----------------------------------------------------------------------------
(* get *)

\* get::<T>(key) is called, and self.inner.read().await grants the lock
get_read(t, k, ty) ==
    /\ Ready(t)
    /\ Acquire(t, "read")
    /\ pc' = [pc EXCEPT ![t] = "get_body"]
    /\ frame' = [frame EXCEPT ![t] = [NoFrame EXCEPT !.key = k, !.ty = ty]]
    /\ nops' = nops + 1
    /\ UNCHANGED <<handle, res, last>>
    /\ UNCHANGED <<codec, remote>>

\* a get that decodes an empty payload when the key is absent
get_or_default(m, k, ty) ==
    LET raw == map_get(m, as_bytes(k))
        d == from_bytes(ty, IF raw = None THEN <<>> ELSE raw[1])
    IN  IF d.kind = "ok" THEN [kind |-> "ok", val |-> Some(d.v)]
        ELSE [kind |-> d.kind, val |-> None]

\* inner.get(key.as_bytes()).map(..).map(T::from_bytes).transpose()?
get(m, k, ty) ==
    LET raw == map_get(m, as_bytes(k))
    IN  IF raw = None THEN [kind |-> "ok", val |-> None]
        ELSE LET d == from_bytes(ty, raw[1])
             IN  IF d.kind = "ok" THEN [kind |-> "ok", val |-> Some(d.v)]
                 ELSE [kind |-> d.kind, val |-> None]

\* a get whose guard outlives the early return of ?
get_body_leak(t) ==
    /\ pc[t] = "get_body"
    /\ LET f == frame[t]
           m == Store(t).map
           r == get(m, f.key, f.ty)
       IN  /\ res' = [NoRes EXCEPT !.task = {t}, !.op = "get", !.key = f.key,
                                !.ty = f.ty, !.kind = r.kind, !.val = r.val,
                                !.raw = map_get(m, as_bytes(f.key)),
                                !.had = contains_key(m, as_bytes(f.key)),
                                !.saw = last[f.key]]
           /\ pc' = [pc EXCEPT ![t] = IF r.kind = "panic" THEN "panicked" ELSE "idle"]
           /\ heap' = [heap EXCEPT ![handle[t][1]] =
                  IF r.kind = "err" THEN Store(t) ELSE Released(t, m)]
    /\ frame' = [frame EXCEPT ![t] = NoFrame]
    /\ UNCHANGED <<handle, last, nops>>
    /\ UNCHANGED <<codec, remote>>

\* the lookup and the decode under the guard; the guard is dropped on return,
\* on the early return of ? and on the unwinding of a panic, which ends the task
get_body(t) ==
    /\ pc[t] = "get_body"
    /\ LET f == frame[t]
           m == Store(t).map
           r == get(m, f.key, f.ty)
       IN  /\ res' = [NoRes EXCEPT !.task = {t}, !.op = "get", !.key = f.key,
                                !.ty = f.ty, !.kind = r.kind, !.val = r.val,
                                !.raw = map_get(m, as_bytes(f.key)),
                                !.had = contains_key(m, as_bytes(f.key)),
                                !.saw = last[f.key]]
           /\ pc' = [pc EXCEPT ![t] = IF r.kind = "panic" THEN "panicked" ELSE "idle"]
           /\ heap' = [heap EXCEPT ![handle[t][1]] = Released(t, m)]
    /\ frame' = [frame EXCEPT ![t] = NoFrame]
    /\ UNCHANGED <<handle, last, nops>>
    /\ UNCHANGED <<codec, remote>>

----------------------------------------------------------------------------
(* set *)

\* set(key, value) is called: let bytes = value.to_bytes(), and
\* self.inner.write().await grants the lock
set_write(t, k, v) ==
    /\ Ready(t)
    /\ Acquire(t, "write")
    /\ pc' = [pc EXCEPT ![t] = "set_insert"]
    /\ frame' = [frame EXCEPT ![t] =
          [NoFrame EXCEPT !.key = k, !.ty = v.ty, !.val = Some(v),
                          !.bytes = to_bytes(v)]]
    /\ nops' = nops + 1
    /\ UNCHANGED <<handle, res, last>>
    /\ UNCHANGED <<codec, remote>>

\* inner.insert(..) starts: the table is read and the slot is being written
set_insert(t) ==
    /\ pc[t] = "set_insert"
    /\ LET f == frame[t]
           m == Store(t).map
       IN  /\ frame' = [frame EXCEPT ![t].tmp = m]
           /\ heap' = [heap EXCEPT ![handle[t][1]].map =
                  map_insert_begin(m, as_bytes(f.key), f.bytes)]
    /\ pc' = [pc EXCEPT ![t] = "set_done"]
    /\ UNCHANGED <<handle, res, last, nops>>
    /\ UNCHANGED <<codec, remote>>

\* inner.insert(..) ends, the guard is dropped, Ok(())
set_done(t) ==
    /\ pc[t] = "set_done"
    /\ LET f == frame[t]
           m == map_insert(f.tmp, as_bytes(f.key), f.bytes)
       IN  /\ heap' = [heap EXCEPT ![handle[t][1]] = Released(t, m)]
           /\ res' = [NoRes EXCEPT !.task = {t}, !.op = "set", !.key = f.key,
                                !.ty = f.ty, !.kind = "ok", !.val = f.val,
                                !.raw = map_get(f.tmp, as_bytes(f.key)),
                                !.had = contains_key(f.tmp, as_bytes(f.key))]
           /\ last' = [last EXCEPT ![f.key] = [val |-> f.val, by |-> {t}]]
    /\ pc' = [pc EXCEPT ![t] = "idle"]
    /\ frame' = [frame EXCEPT ![t] = NoFrame]
    /\ UNCHANGED <<handle, nops>>
    /\ UNCHANGED <<codec, remote>>

----------------------------------------------------------------------------
(* delete *)

\* delete(key) is called, and self.inner.write().await grants the lock
delete_write(t, k) ==
    /\ Ready(t)
    /\ Acquire(t, "write")
    /\ pc' = [pc EXCEPT ![t] = "delete_body"]
    /\ frame' = [frame EXCEPT ![t] = [NoFrame EXCEPT !.key = k]]
    /\ nops' = nops + 1
    /\ UNCHANGED <<handle, res, last>>
    /\ UNCHANGED <<codec, remote>>

\* inner.remove(key.as_bytes()), the guard is dropped, Ok(())
delete_body(t) ==
    /\ pc[t] = "delete_body"
    /\ LET f == frame[t]
           old == Store(t).map
           m == map_remove(old, as_bytes(f.key))
       IN  /\ heap' = [heap EXCEPT ![handle[t][1]] = Released(t, m)]
           /\ res' = [NoRes EXCEPT !.task = {t}, !.op = "delete", !.key = f.key,
                                !.kind = "ok",
                                !.had = contains_key(old, as_bytes(f.key))]
           /\ last' = [last EXCEPT ![f.key] = [val |-> None, by |-> {t}]]
    /\ pc' = [pc EXCEPT ![t] = "idle"]
    /\ frame' = [frame EXCEPT ![t] = NoFrame]
    /\ UNCHANGED <<handle, nops>>
    /\ UNCHANGED <<codec, remote>>

----------------------------------------------------------------------------
(* len *)

\* len() is called, and self.inner.read().await grants the lock
len_read(t) ==
    /\ Ready(t)
    /\ Acquire(t, "read")
    /\ pc' = [pc EXCEPT ![t] = "len_body"]
    /\ nops' = nops + 1
    /\ UNCHANGED <<handle, frame, res, last>>
    /\ UNCHANGED <<codec, remote>>

\* Ok(inner.len())
len_body(t) ==
    /\ pc[t] = "len_body"
    /\ LET m == Store(t).map
       IN  /\ heap' = [heap EXCEPT ![handle[t][1]] = Released(t, m)]
           /\ res' = [NoRes EXCEPT !.task = {t}, !.op = "len", !.kind = "ok",
                                !.n = map_len(m), !.cnt = Cardinality(Live)]
    /\ pc' = [pc EXCEPT ![t] = "idle"]
    /\ UNCHANGED <<handle, frame, last, nops>>
    /\ UNCHANGED <<codec, remote>>

----------------------------------------------------------------------------

Next ==
    \/ \E t, u \in Tasks : Clone(t, u)
    \/ \E t \in Tasks, k \in Keys, ty \in Types : get_read(t, k, ty)
    \/ \E t \in Tasks : get_body(t)
    \/ \E t \in Tasks, k \in Keys, v \in Values : set_write(t, k, v)
    \/ \E t \in Tasks : set_insert(t)
    \/ \E t \in Tasks : set_done(t)
    \/ \E t \in Tasks, k \in Keys : delete_write(t, k)
    \/ \E t \in Tasks : delete_body(t)
    \/ \E t \in Tasks : len_read(t)
    \/ \E t \in Tasks : len_body(t)

Spec == Init /\ [][Next]_vars

----------------------------------------------------------------------------
(* The codec by itself: a value is encoded, as bytes or as hex, and what was
   encoded, or a byte sequence given from outside, is decoded as some type,
   directly and by a get on a map that holds it *)

\* the length of the byte sequences given from outside
MaxLen == 4

ByteAlphabet == {0, 1, 128, 255}

RECURSIVE ByteSeqs(_)
ByteSeqs(n) ==
    IF n = 0 THEN {<<>>}
    ELSE ByteSeqs(n - 1)
         \cup {Append(b, x) : b \in {c \in ByteSeqs(n - 1) : Len(c) = n - 1},
                              x \in ByteAlphabet}

\* every value of the 8-bit types, the edges of the 16-bit types
NarrowValues ==
    {Num("u8", n) : n \in 0..255} \cup {Num("i8", n) : n \in -128..127}
    \cup {Num("u16", n) : n \in {0, 1, 255, 256, 258, 32767, 32768, 65535}}
    \cup {Num("i16", n) : n \in {-32768, -32767, -129, -128, -1, 0, 1, 258, 32767}}

\* zero, one, minus one or the maximum, the minimum or the middle, the
\* maximum of the signed type, and bytes that all differ
WidePatterns(w) ==
    {[i \in 1..w |-> 0], [i \in 1..w |-> IF i = w THEN 1 ELSE 0],
     [i \in 1..w |-> 255], [i \in 1..w |-> IF i = 1 THEN 128 ELSE 0],
     [i \in 1..w |-> IF i = 1 THEN 127 ELSE 255], [i \in 1..w |-> 15 * i]}

WideValues ==
    UNION {{Wide(ty, b) : b \in WidePatterns(WideBytes(ty))} : ty \in WideTypes}

\* "", "a", "\u{e9}", "\u{20ac}", "\u{1f600}", "a\u{e9}"
StringValues ==
    {Str(<<>>), Str(<<97>>), Str(<<233>>), Str(<<8364>>), Str(<<128512>>),
     Str(<<97, 233>>)}

BoolValues == {Bool(TRUE), Bool(FALSE)}

ArcValues ==
    {ArcNew(v) : v \in {Num("u8", 200), Num("i16", -129), Str(<<97, 233>>),
                         Bool(TRUE), Wide("i128", [i \in 1..16 |-> IF i = 1 THEN 128 ELSE 0]),
                         Wide("u64", [i \in 1..8 |-> 255])}}

IntValues == NarrowValues \cup WideValues

CodecValues ==
    IntValues \cup StringValues \cup BoolValues \cup ArcValues

CodecTypes == BaseTypes \cup ArcTypes

CodecStart(origin, v, bytes) ==
    [step |-> origin, origin |-> origin, v |-> v, bytes |-> bytes, hex |-> <<>>,
     via |-> "none", ty |-> "none", out |-> DecodeErr,
     got |-> [kind |-> "none", val |-> None]]

\* no cache is constructed
NoCache ==
    /\ heap = <<NewStore>>
    /\ handle = [t \in Tasks |-> None]
    /\ pc = [t \in Tasks |-> "idle"]
    /\ frame = [t \in Tasks |-> NoFrame]
    /\ res = NoRes
    /\ last = [k \in Keys |-> NoWrite]
    /\ nops = 0

CodecInit ==
    /\ NoCache
    /\ remote = NoRemote
    /\ \/ \E v \in CodecValues : codec = CodecStart("value", v, <<>>)
       \/ \E b \in ByteSeqs(MaxLen) : codec = CodecStart("bytes", NoVal, b)

\* value.to_bytes()
cx_to_bytes ==
    /\ codec.step = "value"
    /\ codec' = [codec EXCEPT !.step = "bytes", !.bytes = to_bytes(codec.v)]
    /\ UNCHANGED <<heap, handle, pc, frame, res, last, nops, remote>>

\* T::from_bytes(bytes), and get::<T> on a map that holds bytes under "a"
cx_from_bytes(ty) ==
    /\ codec.step = "bytes"
    /\ codec' = [codec EXCEPT
          !.step = "decoded", !.via = "bytes", !.ty = ty,
          !.out = from_bytes(ty, codec.bytes),
          !.got = get(map_insert({}, as_bytes(<<97>>), codec.bytes), <<97>>, ty)]
    /\ UNCHANGED <<heap, handle, pc, frame, res, last, nops, remote>>

\* value.to_hex()
cx_to_hex ==
    /\ codec.step = "value"
    /\ codec' = [codec EXCEPT !.step = "hex", !.hex = to_hex(codec.v)]
    /\ UNCHANGED <<heap, handle, pc, frame, res, last, nops, remote>>

\* T::from_hex(hex)
cx_from_hex(ty) ==
    /\ codec.step = "hex"
    /\ codec' = [codec EXCEPT
          !.step = "decoded", !.via = "hex", !.ty = ty,
          !.out = from_hex(ty, codec.hex)]
    /\ UNCHANGED <<heap, handle, pc, frame, res, last, nops, remote>>

CodecNext ==
    \/ cx_to_bytes
    \/ \E ty \in CodecTypes : cx_from_bytes(ty)
    \/ cx_to_hex
    \/ \E ty \in CodecTypes : cx_from_hex(ty)

CodecSpec == CodecInit /\ [][CodecNext]_vars

----------------------------------------------------------------------------
(* Properties *)

\* the map a handle's calls work on
Map(t) == Store(t).map

Holders == {t \in Tasks : handle[t] # None}

\* the payload of a written value
Payload(w) == IF w.val = None THEN None ELSE Some(to_bytes(w.val[1]))

\* C1: a get::<V>(k) whose key was last written by a set(k, v) with v of type
\* V, with no set or delete on k in between, returns Ok(Some(v)).
C1_SetThenGet ==
    (res.op = "get" /\ res.saw.val # None /\ res.saw.val[1].ty = res.ty)
        => (res.kind = "ok" /\ res.val = res.saw.val)

\* a get::<String> has returned the two-byte string a set stored
C1_Witness ==
    /\ res.op = "get" /\ res.ty = "String"
    /\ res.saw.val = Some(Str(<<233>>))
    /\ res.val = Some(Str(<<233>>))

\* C2: a set(k, v2) on a key that holds a payload leaves the number of
\* entries as it was, leaves k exactly one payload, that of v2, which decodes
\* to v2; and at no time does a key have two entries.
C2_Overwrite ==
    /\ [](\A t \in Holders : \A e1, e2 \in Map(t) : e1.key = e2.key => e1 = e2)
    /\ [][\A t \in Tasks :
            (pc[t] = "set_done" /\ pc'[t] = "idle"
             /\ contains_key(frame[t].tmp, as_bytes(frame[t].key)))
            => LET f == frame[t]
                   after == heap'[handle[t][1]].map
               IN  /\ map_len(after) = map_len(f.tmp)
                   /\ map_get(after, as_bytes(f.key)) = Some(to_bytes(f.val[1]))
                   /\ from_bytes(f.ty, map_get(after, as_bytes(f.key))[1])
                        = Decoded(f.val[1])
                   /\ res'.kind = "ok"]_vars

\* a set has replaced the payload of another value
C2_Witness ==
    /\ res.op = "set" /\ res.had
    /\ res.raw # Some(to_bytes(res.val[1]))
    /\ last[res.key].val = res.val

\* C3: a get on a key whose latest write is a delete returns Ok(None); a
\* delete on an absent key returns Ok and leaves the map, so also its length,
\* as it was.
C3_Delete ==
    /\ []((res.op = "get" /\ res.saw.val = None /\ res.saw.by # {})
            => (res.kind = "ok" /\ res.val = None))
    /\ [][\A t \in Tasks :
            (pc[t] = "delete_body" /\ pc'[t] = "idle"
             /\ ~contains_key(Map(t), as_bytes(frame[t].key)))
            => (/\ heap'[handle[t][1]].map = Map(t)
                /\ map_len(heap'[handle[t][1]].map) = map_len(Map(t))
                /\ res'.kind = "ok")]_vars

\* a get has found nothing under a key that a delete emptied
C3_Witness ==
    /\ res.op = "get" /\ res.val = None /\ res.kind = "ok"
    /\ res.saw.val = None /\ res.saw.by # {}

\* C4: the cache is empty until the first call, and a len returns the number
\* of keys whose latest write is a set.
C4_LenCounts ==
    /\ nops = 0 => \A t \in Holders : map_len(Map(t)) = 0
    /\ res.op = "len" => (res.kind = "ok" /\ res.n = res.cnt)

\* a len has counted two keys
C4_Witness == res.op = "len" /\ res.n = 2 /\ Cardinality(Live) = 2

\* C5: a get on a key with no entry returns Ok(None), whatever the type.
C5_AbsentIsNone ==
    (res.op = "get" /\ ~res.had) => (res.kind = "ok" /\ res.val = None)

\* a get of an integer has found no entry
C5_Witness == res.op = "get" /\ ~res.had /\ res.ty = "u8" /\ res.val = None

\* a payload that decodes as ty: UTF-8 for a String, 16 bytes for an integer
Decodable(ty, bytes) ==
    IF ty = "String" THEN from_utf8(bytes).ok
    ELSE IF ty \in IntTypes THEN Len(bytes) >= NumBytes
    ELSE TRUE

\* C6: a get::<V>(k) on a key whose payload does not decode as V returns
\* an error: not None, not a value.
C6_WrongTypeIsError ==
    (res.op = "get" /\ res.had /\ ~Decodable(res.ty, res.raw[1]))
        => (res.kind = "err" /\ res.val = None)

\* C7: a get of an integer on a key whose payload is shorter than 16 bytes
\* returns an error, and its task goes on.
C7_ShortPayloadIsError ==
    /\ (res.op = "get" /\ res.ty \in IntTypes /\ res.had
         /\ Len(res.raw[1]) < NumBytes)
            => (res.kind = "err" /\ res.val = None)
    /\ \A t \in Tasks : pc[t] # "panicked"

\* C8: the handles work on one map: at any time all of them hold the same
\* entries, a get through any of them finds an entry exactly when the latest
\* write, through whichever handle, is a set, a len counts the keys those
\* writes left; and a clone changes no entry.
C8_ClonesShare ==
    /\ [](/\ \A t, u \in Holders : Map(t) = Map(u)
          /\ res.op = "get" => (res.had <=> res.saw.val # None)
          /\ res.op = "len" => res.n = res.cnt)
    /\ [][\A t \in Holders :
            handle' # handle => heap'[handle'[t][1]].map = Map(t)]_vars

\* a get has returned the value that a set through another handle stored
C8_Witness ==
    /\ res.op = "get" /\ res.val # None
    /\ res.saw.by # {} /\ res.saw.by # res.task
    /\ res.val = res.saw.val

\* no set is between the start and the end of its insert
Quiet == \A t \in Tasks : pc[t] \notin {"set_insert", "set_done"}

\* C9: once the sets have completed, each key whose latest write is a set
\* holds the payload of that set, the map holds as many entries as there are
\* such keys, and a len returns that number.
C9_NoLostSet ==
    /\ Quiet => \A t \in Holders :
          /\ \A k \in Keys : map_get(Map(t), as_bytes(k)) = Payload(last[k])
          /\ map_len(Map(t)) = Cardinality(Live)
    /\ res.op = "len" => res.n = res.cnt

\* a len has counted the keys that sets of different tasks stored
C9_Witness ==
    /\ res.op = "len" /\ res.n = Cardinality(Keys)
    /\ \A k \in Keys : last[k].val # None
    /\ \E j, k \in Keys : last[j].by # last[k].by

\* C10: a get reads nothing, or the whole payload of the value of a set on
\* its key, the latest one to complete; never a part of a payload.
C10_NoTornRead ==
    res.op = "get" =>
        \/ res.raw = None /\ res.val = None /\ res.saw.val = None
        \/ \E v \in Values : res.raw = Some(to_bytes(v)) /\ res.saw.val = Some(v)

\* a get has returned a payload, and a set of another task is writing the
\* same key
C10_Witness ==
    /\ res.op = "get" /\ res.had
    /\ \E u \in Tasks \ res.task :
          pc[u] = "set_done" /\ frame[u].key = res.key
          /\ frame[u].bytes # res.raw[1]

----------------------------------------------------------------------------
(* Numbers, to state what the integer codec does: a sign and the base-256
   digits of the magnitude, most significant first, without leading zeros *)

AllIntTypes == IntTypes \cup WideTypes

IsSigned(ty) == IF ty \in WideTypes THEN WideSigned(ty) ELSE Signed(ty)

TypeBytes(ty) == IF ty \in WideTypes THEN WideBytes(ty) ELSE Bits(ty) \div 8

RECURSIVE Strip(_)
Strip(b) == IF b # <<>> /\ Head(b) = 0 THEN Strip(Tail(b)) ELSE b

RECURSIVE Inc(_)
Inc(b) ==
    IF b = <<>> THEN <<>>
    ELSE LET n == Len(b)
         IN  IF b[n] < 255 THEN [b EXCEPT ![n] = @ + 1]
             ELSE Append(Inc(SubSeq(b, 1, n - 1)), 0)

\* the two's complement of a byte sequence
Negate(b) == Inc([i \in 1..Len(b) |-> 255 - b[i]])

RECURSIVE Digits(_)
Digits(n) == IF n = 0 THEN <<>> ELSE Append(Digits(n \div 256), n % 256)

\* the number that big-endian bytes denote, in two's complement when signed
NumberOfBytes(signed, b) ==
    IF signed /\ b # <<>> /\ b[1] >= 128
    THEN [neg |-> TRUE, mag |-> Strip(Negate(b))]
    ELSE [neg |-> FALSE, mag |-> Strip(b)]

\* the number an integer value is
NumberOf(v) ==
    IF v.ty \in WideTypes THEN NumberOfBytes(WideSigned(v.ty), v.str)
    ELSE [neg |-> v.num < 0, mag |-> Digits(IF v.num < 0 THEN -v.num ELSE v.num)]

\* the number is one of the type's values
Representable(n, ty) ==
    LET w == TypeBytes(ty)
        min == [i \in 1..w |-> IF i = 1 THEN 128 ELSE 0]
    IN  IF ~IsSigned(ty) THEN ~n.neg /\ Len(n.mag) <= w
        ELSE \/ Len(n.mag) < w
             \/ Len(n.mag) = w /\ n.mag[1] < 128
             \/ n.neg /\ n.mag = min

\* C11: for a value v of any of the twelve integer types, to_bytes(v) is 16
\* bytes that denote v in big-endian two's complement (v widened to 128 bits),
\* and from_bytes of v's own type gives v back, for negative values and for
\* the least and the greatest values too.
C11_IntegerRoundTrip ==
    codec.origin = "value" /\ codec.v \in IntValues =>
        /\ codec.step = "bytes" \/ (codec.step = "decoded" /\ codec.via = "bytes") =>
              /\ Len(codec.bytes) = NumBytes
              /\ NumberOfBytes(IsSigned(codec.v.ty), codec.bytes) = NumberOf(codec.v)
              /\ ~IsSigned(codec.v.ty) =>
                    codec.bytes = [i \in 1..(NumBytes - Len(NumberOf(codec.v).mag)) |-> 0]
                                  \o NumberOf(codec.v).mag
        /\ codec.step = "decoded" /\ codec.via = "bytes" /\ codec.ty = codec.v.ty =>
              codec.out = Decoded(codec.v)

\* the least i64, which is negative, came back from its 16 bytes
C11_Witness ==
    /\ codec.step = "decoded" /\ codec.via = "bytes" /\ codec.origin = "value"
    /\ codec.v = Wide("i64", <<128, 0, 0, 0, 0, 0, 0, 0>>)
    /\ codec.ty = "i64" /\ codec.out = Decoded(codec.v)
    /\ SubSeq(codec.bytes, 1, 9) = <<255, 255, 255, 255, 255, 255, 255, 255, 128>>

\* C12: an integer stored as one integer type and read by a get of another
\* integer type comes back as Some of the same number whenever the number is
\* one of the read type's values; and the payload depends on the number
\* alone, not on the width of the type it was stored as.
C12_CrossTypeRetrieval ==
    codec.origin = "value" /\ codec.v \in IntValues =>
        /\ ( /\ codec.step = "decoded" /\ codec.via = "bytes"
              /\ codec.ty \in AllIntTypes
              /\ Representable(NumberOf(codec.v), codec.ty) ) =>
              /\ codec.got.kind = "ok" /\ codec.got.val # None
              /\ codec.got.val[1].ty = codec.ty
              /\ NumberOf(codec.got.val[1]) = NumberOf(codec.v)
              /\ codec.out = Decoded(codec.got.val[1])
        /\ codec.step = "bytes" =>
              \A w \in IntValues :
                  NumberOf(w) = NumberOf(codec.v) => to_bytes(w) = codec.bytes

\* the u8 1 was stored and a get of u16 returned Some(1)
C12_Witness ==
    /\ codec.step = "decoded" /\ codec.via = "bytes" /\ codec.origin = "value"
    /\ codec.v = Num("u8", 1) /\ codec.ty = "u16"
    /\ codec.got = [kind |-> "ok", val |-> Some(Num("u16", 1))]

\* C13: from_bytes of bool succeeds on every byte sequence, of any length and
\* the empty one too, and gives false exactly when every byte is zero; so the
\* bytes of true give true and the bytes of false give false.
C13_BoolDecode ==
    codec.step = "decoded" /\ codec.via = "bytes" /\ codec.ty = "bool" =>
        /\ codec.out.kind = "ok"
        /\ codec.out.v \in BoolValues
        /\ codec.out.v = Bool(FALSE) <=>
              \A i \in 1..Len(codec.bytes) : codec.bytes[i] = 0
        /\ codec.got = [kind |-> "ok", val |-> Some(codec.out.v)]
        /\ codec.origin = "value" /\ codec.v \in BoolValues =>
              codec.out = Decoded(codec.v)

\* the four bytes 0, 0, 0, 1 were decoded as true
C13_Witness ==
    /\ codec.step = "decoded" /\ codec.via = "bytes" /\ codec.ty = "bool"
    /\ codec.origin = "bytes" /\ codec.bytes = <<0, 0, 0, 1>>
    /\ codec.out = Decoded(Bool(TRUE))

\* the characters 0123456789abcdef
LowerHex == <<48, 49, 50, 51, 52, 53, 54, 55, 56, 57, 97, 98, 99, 100, 101, 102>>

\* C14: to_hex(v) is the lowercase hexadecimal text of to_bytes(v), two
\* characters a byte, and from_hex(to_hex(v)) == v for every integer, bool
\* and String value and every Arc of one; decoded as any type, the hex text
\* gives what the bytes give.
C14_HexRoundTrip ==
    codec.origin = "value" =>
        /\ codec.step = "hex" \/ (codec.step = "decoded" /\ codec.via = "hex") =>
              LET b == to_bytes(codec.v)
              IN  /\ Len(codec.hex) = 2 * Len(b)
                  /\ \A i \in 1..Len(b) :
                        /\ codec.hex[2 * i - 1] = LowerHex[(b[i] \div 16) + 1]
                        /\ codec.hex[2 * i] = LowerHex[(b[i] % 16) + 1]
        /\ codec.step = "decoded" /\ codec.via = "hex" =>
              /\ codec.out = from_bytes(codec.ty, to_bytes(codec.v))
              /\ codec.ty = codec.v.ty => codec.out = Decoded(codec.v)

\* an Arc<String> of "a\u{e9}" came back from the text 61c3a9
C14_Witness ==
    /\ codec.step = "decoded" /\ codec.via = "hex" /\ codec.origin = "value"
    /\ codec.v = ArcNew(Str(<<97, 233>>)) /\ codec.ty = codec.v.ty
    /\ codec.hex = <<54, 49, 99, 51, 97, 57>>
    /\ codec.out = Decoded(codec.v)

\* where a task is while it holds the read guard, and the write guard
ReadPcs == {"get_body", "len_body"}

WritePcs == {"set_insert", "set_done", "delete_body"}

\* C15: a get or a len holds the lock of the memory cache as a reader for as
\* long as it works on the map, a set or a delete as a writer; while a
\* writer holds the lock nobody else holds it, neither a reader nor another
\* writer, and several readers may hold it at once.
C15_ReadersWriter ==
    \A t \in Holders :
        LET s == Store(t)
        IN  /\ t \in s.readers <=> pc[t] \in ReadPcs
            /\ t \in s.writers <=> pc[t] \in WritePcs
            /\ s.writers # {} => Cardinality(s.writers) = 1 /\ s.readers = {}

\* a get and a len hold the lock together
C15_Witness ==
    \E t, u \in Holders :
        /\ pc[t] = "get_body" /\ pc[u] = "len_body"
        /\ Store(t).readers = {t, u} /\ Store(t).writers = {}

\* C16: the writes of the memory cache are ordered by the write lock and the
\* last one wins: a set or a delete takes effect while its task is the one
\* holder of the lock, so that no other write and no get that holds the lock
\* is under way; a get returns the payload of the latest write to its key
\* before it; and once no write is under way every key holds the payload of
\* the latest write to it.
C16_LastWriteWins ==
    [][ /\ \A k \in Keys : last'[k] # last[k] =>
              \E t \in Holders :
                  /\ Store(t).writers = {t} /\ Store(t).readers = {}
                  /\ pc[t] \in WritePcs /\ frame[t].key = k
                  /\ last'[k].by = {t}
        /\ res' # res /\ res'.op = "get" =>
              /\ res'.saw = last[res'.key]
              /\ res'.raw = Payload(last[res'.key])
              /\ last' = last
        /\ ( /\ \/ last' # last
                 \/ [p \in DOMAIN heap' |-> heap'[p].map]
                    # [p \in DOMAIN heap |-> heap[p].map]
              /\ \A t \in Tasks : pc'[t] \notin WritePcs ) =>
              \A t \in Holders, k \in Keys :
                  map_get(heap'[handle'[t][1]].map, as_bytes(k)) = Payload(last'[k])
      ]_vars

\* a get of one task has returned the value that a set of another task
\* wrote, after every call there is to issue
C16_Witness ==
    /\ res.op = "get" /\ res.val # None /\ res.task = {1}
    /\ res.saw.by = {2} /\ last[res.key] = res.saw
    /\ nops = MaxOps /\ \A t \in Tasks : pc[t] = "idle"

----------------------------------------------------------------------------
(* RedisCache and MySqlCache: every task holds a clone of one cache; a call
   sends a command to the store, the store executes it or fails it, and the
   reply ends the call. The future of a call may be dropped while it awaits
   the reply. *)

Backends == {"redis", "mysql"}

\* the calls issued on a RedisCache or a MySqlCache
MaxCalls == 2

RemoteValues == {Num("u8", 200), Str(<<233>>)}

RemoteTypes == {"u8"}

Row(k, hex) == [key |-> k, val |-> hex]

NoCall ==
    [pc |-> "idle", op |-> "none", key |-> <<>>, ty |-> "none", todo |-> <<>>,
     sent |-> 0]

NoReply == [ok |-> TRUE, val |-> None, n |-> 0]

NoRemoteRes ==
    [task |-> {}, op |-> "none", key |-> <<>>, ty |-> "none", kind |-> "none",
     val |-> None, n |-> 0, sent |-> 0, fault |-> FALSE]

Command(c, k, hex) == [cmd |-> c, key |-> k, val |-> hex]

\* a set that reads the row and then inserts it
set_select_insert(k, hex) ==
    <<Command("select", k, <<>>), Command("insert", k, hex)>>

\* INSERT INTO .. VALUES (?, ?) ON DUPLICATE KEY UPDATE .. = ?
set_statements(k, hex) == <<Command("upsert", k, hex)>>

\* the commands a call sends, one after the reply to the other
statements(backend, op, k, hex) ==
    IF backend = "redis"
    THEN CASE op = "get" -> <<Command("hget", k, <<>>)>>
           [] op = "set" -> <<Command("hset", k, hex)>>
           [] op = "delete" -> <<Command("hdel", k, <<>>)>>
           [] op = "len" -> <<Command("hlen", <<>>, <<>>)>>
    ELSE CASE op = "get" -> <<Command("select", k, <<>>)>>
           [] op = "set" -> set_statements(k, hex)
           [] op = "delete" -> <<Command("delete", k, <<>>)>>
           [] op = "len" -> <<Command("count", <<>>, <<>>)>>

\* a call that sends its command again after a first error
give_up_second(sent) == sent >= 2

\* .await? returns the error of the command to the caller
give_up(sent) == sent >= 1

\* what the store does with a command: the rows after it and its reply; the
\* key is the primary key of the table, the field of the hash
Execute(c, rows) ==
    LET at == {r \in rows : r.key = c.key}
    IN  CASE c.cmd \in {"hget", "select"} ->
               [rows |-> rows,
                reply |-> [NoReply EXCEPT !.val =
                             IF at = {} THEN None
                             ELSE Some((CHOOSE r \in at : TRUE).val)]]
          [] c.cmd \in {"hset", "upsert"} ->
               [rows |-> (rows \ at) \cup {Row(c.key, c.val)}, reply |-> NoReply]
          [] c.cmd = "insert" ->
               IF at = {} THEN [rows |-> rows \cup {Row(c.key, c.val)}, reply |-> NoReply]
               ELSE [rows |-> rows, reply |-> [NoReply EXCEPT !.ok = FALSE]]
          [] c.cmd \in {"hdel", "delete"} ->
               [rows |-> rows \ at, reply |-> NoReply]
          [] c.cmd \in {"hlen", "count"} ->
               [rows |-> rows, reply |-> [NoReply EXCEPT !.n = Cardinality(rows)]]

\* remote.rows: the fields of the hash, the rows of the table
\* remote.lock: the RwLock of a RedisCache
\* remote.wire: the commands sent and not replied to, each with its task,
\*      whether the task still awaits it (live), and its reply once the
\*      store has dealt with it (served, fault)
\* remote.call[t]: where task t is in its call and the call's locals
\* remote.res: the latest call to return
\* remote.last[k]: the value of the latest write the store executed on k
\* remote.ncalls, remote.ncmds: the calls issued and the commands sent
RemoteStart(b) ==
    [backend |-> b, rows |-> {}, lock |-> NewStore, wire |-> {},
     call |-> [t \in Tasks |-> NoCall], res |-> NoRemoteRes,
     last |-> [k \in Keys |-> None], ncalls |-> 0, ncmds |-> 0]

RemoteInit ==
    /\ NoCache
    /\ codec = NoCodec
    /\ \E b \in Backends : remote = RemoteStart(b)

InFlight(t, c) ==
    [task |-> t, c |-> c, live |-> TRUE, served |-> FALSE, fault |-> FALSE,
     reply |-> NoReply]

\* task t's command that it awaits the reply to
Awaited(t) == CHOOSE w \in remote.wire : w.task = t /\ w.live

\* the guard of self.inner.write().await is dropped; a MySqlCache has none
Unlocked(t) == [remote.lock EXCEPT !.writers = @ \ {t}]

\* get, set, delete or len is called; a RedisCache waits for
\* self.inner.write().await, which changes nothing, and is granted the lock;
\* the first poll of the command's future sends the command
r_call(t, op, k, ty, v) ==
    /\ remote.backend \in Backends
    /\ remote.call[t].pc = "idle"
    /\ remote.ncalls < MaxCalls
    /\ remote.backend = "redis" => can_write(remote.lock)
    /\ LET todo == statements(remote.backend, op, k, to_hex(v))
       IN  remote' = [remote EXCEPT
              !.lock = IF remote.backend = "redis"
                       THEN [@ EXCEPT !.writers = @ \cup {t}] ELSE @,
              !.wire = @ \cup {InFlight(t, Head(todo))},
              !.call[t] = [pc |-> "sent", op |-> op, key |-> k, ty |-> ty,
                           todo |-> Tail(todo), sent |-> 1],
              !.ncalls = @ + 1,
              !.ncmds = @ + 1]
    /\ UNCHANGED <<heap, handle, pc, frame, res, last, nops, codec>>

r_get(t, k, ty) == r_call(t, "get", k, ty, NoVal)

r_set(t, k, v) == r_call(t, "set", k, "none", v)

r_delete(t, k) == r_call(t, "delete", k, "none", NoVal)

r_len(t) == r_call(t, "len", <<>>, "none", NoVal)

\* the store executes a command, whole
r_exec(w) ==
    /\ w \in remote.wire /\ ~w.served
    /\ LET x == Execute(w.c, remote.rows)
           done == [w EXCEPT !.served = TRUE, !.reply = x.reply]
       IN  remote' = [remote EXCEPT
              !.rows = x.rows,
              !.wire = (@ \ {w}) \cup (IF w.live THEN {done} ELSE {}),
              !.last = IF w.c.cmd \in {"hset", "upsert", "insert"} /\ x.reply.ok
                       THEN [@ EXCEPT ![w.c.key] = Some(w.c.val)]
                       ELSE IF w.c.cmd \in {"hdel", "delete"}
                       THEN [@ EXCEPT ![w.c.key] = None]
                       ELSE @]
    /\ UNCHANGED <<heap, handle, pc, frame, res, last, nops, codec>>

\* the store, or the connection to it, fails a command that a task awaits
r_fail(w) ==
    /\ w \in remote.wire /\ ~w.served /\ w.live
    /\ remote' = [remote EXCEPT
          !.wire = (@ \ {w}) \cup
                   {[w EXCEPT !.served = TRUE, !.fault = TRUE, !.reply.ok = FALSE]}]
    /\ UNCHANGED <<heap, handle, pc, frame, res, last, nops, codec>>

\* what the call returns on the reply to its last command
Returned(t, w) ==
    LET c == remote.call[t]
        r == [NoRemoteRes EXCEPT !.task = {t}, !.op = c.op, !.key = c.key,
                                 !.ty = c.ty, !.sent = c.sent, !.fault = w.fault]
    IN  IF ~w.reply.ok THEN [r EXCEPT !.kind = "err"]
        ELSE IF c.op = "get" /\ w.reply.val # None
        THEN LET d == from_hex(c.ty, w.reply.val[1])
             IN  IF d.kind = "ok" THEN [r EXCEPT !.kind = "ok", !.val = Some(d.v)]
                 ELSE [r EXCEPT !.kind = d.kind]
        ELSE [r EXCEPT !.kind = "ok", !.n = w.reply.n]

\* the reply reaches the task: an error is returned by ?, a hex text is
\* decoded once the guard is dropped, and the call returns
r_reply(t) ==
    /\ remote.call[t].pc = "sent"
    /\ \E w \in remote.wire :
          /\ w.task = t /\ w.live /\ w.served
          /\ LET c == remote.call[t]
                 again == ~w.reply.ok /\ ~give_up(c.sent)
                 more == w.reply.ok /\ c.todo # <<>>
             IN  IF again \/ more
                 THEN remote' = [remote EXCEPT
                        !.wire = (@ \ {w}) \cup
                                 {InFlight(t, IF again THEN w.c ELSE Head(c.todo))},
                        !.call[t].todo = IF again THEN @ ELSE Tail(@),
                        !.call[t].sent = @ + 1,
                        !.ncmds = @ + 1]
                 ELSE remote' = [remote EXCEPT
                        !.wire = @ \ {w},
                        !.lock = Unlocked(t),
                        !.call[t] = [NoCall EXCEPT !.pc =
                                       IF Returned(t, w).kind = "panic"
                                       THEN "panicked" ELSE "idle"],
                        !.res = Returned(t, w)]
    /\ UNCHANGED <<heap, handle, pc, frame, res, last, nops, codec>>

\* the future of the call is dropped while it awaits the reply: the guard
\* is dropped with it, the command that was sent stays with the store
r_cancel(t) ==
    /\ remote.call[t].pc = "sent"
    /\ LET w == Awaited(t)
       IN  remote' = [remote EXCEPT
              !.wire = (@ \ {w}) \cup
                       (IF w.served THEN {} ELSE {[w EXCEPT !.live = FALSE]}),
              !.lock = Unlocked(t),
              !.call[t] = NoCall]
    /\ UNCHANGED <<heap, handle, pc, frame, res, last, nops, codec>>

RemoteNext ==
    \/ \E t \in Tasks, k \in Keys, ty \in RemoteTypes : r_get(t, k, ty)
    \/ \E t \in Tasks, k \in Keys, v \in RemoteValues : r_set(t, k, v)
    \/ \E t \in Tasks, k \in Keys : r_delete(t, k)
    \/ \E t \in Tasks : r_len(t)
    \/ \E w \in remote.wire : r_exec(w)
    \/ \E w \in remote.wire : r_fail(w)
    \/ \E t \in Tasks : r_reply(t)
    \/ \E t \in Tasks : r_cancel(t)

RemoteSpec == RemoteInit /\ [][RemoteNext]_vars

----------------------------------------------------------------------------
(* Properties of the remote caches *)

\* the commands on the connection: sent, and their replies not received
OnWire == {w \in remote.wire : w.live \/ ~w.served}

\* C17: at most one command of a RedisCache and its clones is on the
\* connection at any time, and the task that sent it holds the write lock
\* until the reply is received.
C17_OneCommandInFlight ==
    remote.backend = "redis" =>
        /\ Cardinality(OnWire) <= 1
        /\ \A w \in OnWire : w.live => remote.lock.writers = {w.task}

\* C18: a set of a MySqlCache is one upsert statement and nothing before it;
\* whatever the interleaving of sets on a key, no set fails unless the store
\* fails its statement, the table has at most one row for a key, and the row
\* is the hex text of the value of the latest set the store executed.
C18_AtomicUpsert ==
    remote.backend = "mysql" =>
        /\ \A w \in remote.wire :
              remote.call[w.task].op = "set" /\ w.live =>
                  /\ w.c.cmd = "upsert" /\ remote.call[w.task].sent = 1
                  /\ w.served /\ ~w.fault => w.reply.ok
        /\ remote.res.op = "set" =>
              /\ remote.res.sent = 1
              /\ remote.res.kind = "ok" \/ remote.res.fault
        /\ \A k \in Keys :
              {r \in remote.rows : r.key = k} =
                  IF remote.last[k] = None THEN {} ELSE {Row(k, remote.last[k][1])}
        /\ \A r \in remote.rows : \E v \in RemoteValues : r.val = to_hex(v)

\* two sets of different values on one key are under way together, the store
\* has executed both, and the key has one row
C18_Witness ==
    /\ remote.backend = "mysql"
    /\ \E w1, w2 \in remote.wire :
          /\ w1.task # w2.task /\ w1.c.key = w2.c.key /\ w1.c.val # w2.c.val
          /\ w1.c.cmd = "upsert" /\ w2.c.cmd = "upsert"
          /\ w1.live /\ w2.live /\ w1.served /\ w2.served
          /\ w1.reply.ok /\ w2.reply.ok
          /\ Cardinality({r \in remote.rows : r.key = w1.c.key}) = 1

\* C20: a call sends one command; when the store fails it the call returns
\* the error and sends nothing again, so there are never more commands than
\* calls.
C20_NoRetry ==
    remote.backend \in Backends =>
        /\ \A t \in Tasks :
              /\ remote.call[t].sent <= 1
              /\ Cardinality({w \in remote.wire : w.task = t /\ w.live}) <= 1
        /\ remote.res.op # "none" => remote.res.sent = 1
        /\ remote.res.fault => remote.res.kind = "err"
        /\ remote.ncmds <= remote.ncalls

\* the store failed the command of a call, and the call returned the error
\* after that one command
C20_Witness ==
    /\ remote.res.fault /\ remote.res.kind = "err" /\ remote.res.sent = 1
    /\ remote.ncmds = 1 /\ remote.wire = {}

----------------------------------------------------------------------------
(* Cancellation: the future of a call is dropped while the call is
   suspended. A call on a MemoryCache is suspended at read().await and at
   write().await and nowhere else; a call on a RedisCache that waits for the
   lock has changed nothing, and one that awaits the reply is dropped by
   r_cancel. The cache is a MemoryCache or a RedisCache, and every task holds
   a clone of it. *)

WaitPcs == {"get_wait", "set_wait", "delete_wait", "len_wait"}

\* a future that is dropped in the middle of inner.insert(..) as well
suspends_insert == WaitPcs \cup {"set_done"}

\* the .await points of MemoryCache::get, set, delete and len
suspends == WaitPcs

CancelInit ==
    /\ heap = <<NewStore>>
    /\ pc = [t \in Tasks |-> "idle"]
    /\ frame = [t \in Tasks |-> NoFrame]
    /\ res = NoRes
    /\ last = [k \in Keys |-> NoWrite]
    /\ nops = 0
    /\ codec = NoCodec
    /\ \/ /\ handle = [t \in Tasks |-> Some(1)]
          /\ remote = RemoteStart("none")
       \/ /\ handle = [t \in Tasks |-> None]
          /\ remote = RemoteStart("redis")

\* a call on the MemoryCache is made and waits for the lock
Called(t, wait, f) ==
    /\ handle[t] # None /\ pc[t] = "idle"
    /\ nops < MaxCalls
    /\ pc' = [pc EXCEPT ![t] = wait]
    /\ frame' = [frame EXCEPT ![t] = f]
    /\ nops' = nops + 1
    /\ UNCHANGED <<heap, handle, res, last, codec, remote>>

get_call(t, k, ty) ==
    Called(t, "get_wait", [NoFrame EXCEPT !.key = k, !.ty = ty])

\* let bytes = value.to_bytes() comes before the lock
set_call(t, k, v) ==
    Called(t, "set_wait", [NoFrame EXCEPT !.key = k, !.ty = v.ty, !.val = Some(v),
                                          !.bytes = to_bytes(v)])

delete_call(t, k) == Called(t, "delete_wait", [NoFrame EXCEPT !.key = k])

len_call(t) == Called(t, "len_wait", NoFrame)

\* read().await or write().await returns the guard
Granted(t) ==
    /\ pc[t] \in WaitPcs
    /\ Acquire(t, IF pc[t] \in {"get_wait", "len_wait"} THEN "read" ELSE "write")
    /\ pc' = [pc EXCEPT ![t] =
          CASE pc[t] = "get_wait" -> "get_body"
            [] pc[t] = "set_wait" -> "set_insert"
            [] pc[t] = "delete_wait" -> "delete_body"
            [] pc[t] = "len_wait" -> "len_body"]
    /\ UNCHANGED <<handle, frame, res, last, nops, codec, remote>>

\* the future of a call on the MemoryCache is dropped where it is suspended,
\* and the guard with it if the call has one
Dropped(t) ==
    /\ handle[t] # None /\ pc[t] \in suspends
    /\ heap' = [heap EXCEPT ![handle[t][1]] = Released(t, Store(t).map)]
    /\ pc' = [pc EXCEPT ![t] = "idle"]
    /\ frame' = [frame EXCEPT ![t] = NoFrame]
    /\ UNCHANGED <<handle, res, last, nops, codec, remote>>

CancelNext ==
    \/ \E t \in Tasks, k \in Keys, ty \in RemoteTypes : get_call(t, k, ty)
    \/ \E t \in Tasks, k \in Keys, v \in RemoteValues : set_call(t, k, v)
    \/ \E t \in Tasks, k \in Keys : delete_call(t, k)
    \/ \E t \in Tasks : len_call(t)
    \/ \E t \in Tasks : Granted(t)
    \/ \E t \in Tasks : Dropped(t)
    \/ \E t \in Tasks : get_body(t)
    \/ \E t \in Tasks : set_insert(t)
    \/ \E t \in Tasks : set_done(t)
    \/ \E t \in Tasks : delete_body(t)
    \/ \E t \in Tasks : len_body(t)
    \/ RemoteNext

CancelSpec == CancelInit /\ [][CancelNext]_vars

\* C19: dropping the future of a call where it is suspended leaves the store
\* as if the call had completed or had never been made. MemoryCache: whenever
\* no write holds the lock every key holds the whole payload of the latest
\* completed write to it, or nothing, and the lock is held by exactly the
\* tasks that are at work on the map, so a dropped call holds nothing.
\* RedisCache: a call is one command, which the store executes whole or not
\* at all, so every field is the hex text of the latest hset executed on it,
\* and the lock is held by exactly the tasks that await a reply.
C19_CancelConsistent ==
    /\ \A t \in Holders :
          /\ (\A u \in Tasks : pc[u] \notin WritePcs) =>
                \A k \in Keys : map_get(Map(t), as_bytes(k)) = Payload(last[k])
          /\ Store(t).readers = {u \in Tasks : pc[u] \in ReadPcs}
          /\ Store(t).writers = {u \in Tasks : pc[u] \in WritePcs}
    /\ remote.backend = "redis" =>
          /\ \A t \in Tasks : remote.call[t].todo = <<>>
          /\ \A k \in Keys :
                {r \in remote.rows : r.key = k} =
                    IF remote.last[k] = None THEN {} ELSE {Row(k, remote.last[k][1])}
          /\ \A r \in remote.rows : \E v \in RemoteValues : r.val = to_hex(v)
          /\ remote.lock.writers = {t \in Tasks : remote.call[t].pc = "sent"}

\* the one call made on the RedisCache was a set that never returned: its
\* future was dropped, the store executed its hset all the same, and the
\* lock is free
C19_Witness ==
    /\ remote.backend = "redis" /\ remote.ncalls = 1
    /\ remote.res = NoRemoteRes
    /\ \A t \in Tasks : remote.call[t] = NoCall
    /\ remote.wire = {} /\ remote.lock.writers = {}
    /\ Cardinality(remote.rows) = 1

----------------------------------------------------------------------------
(* Frame conditions, failed gets and progress of the MemoryCache *)

\* C21: a get and a len leave the map as it is; a step that changes the map
\* is a step of a set or a delete that holds the write lock, and it leaves
\* the payload of every key other than its own as it was; a set ends with one
\* entry more than it found when its key was absent and as many when it was
\* present, a delete with one entry fewer when its key was present and as many
\* when it was absent.
C21_FrameConditions ==
    [][ heap' # heap =>
          \A p \in DOMAIN heap :
              LET m == heap[p].map
                  n == heap'[p].map
                  here == {t \in Holders : handle[t][1] = p /\ pc'[t] # pc[t]}
              IN  /\ n # m =>
                        \E t \in here :
                            /\ pc[t] \in WritePcs /\ heap[p].writers = {t}
                            /\ \A k \in Keys \ {frame[t].key} :
                                  map_get(n, as_bytes(k)) = map_get(m, as_bytes(k))
                  /\ \A t \in here :
                        LET key == as_bytes(frame[t].key)
                            tmp == frame[t].tmp
                        IN  /\ pc[t] \in ReadPcs => n = m
                            /\ pc[t] = "set_done" =>
                                  /\ map_len(n) = map_len(tmp)
                                        + (IF contains_key(tmp, key) THEN 0 ELSE 1)
                                  /\ \A k \in Keys \ {frame[t].key} :
                                        map_get(n, as_bytes(k)) = map_get(tmp, as_bytes(k))
                            /\ pc[t] = "set_insert" => frame'[t].tmp = m
                            /\ pc[t] = "delete_body" =>
                                  map_len(n) = map_len(m)
                                        - (IF contains_key(m, key) THEN 1 ELSE 0)
      ]_vars

\* a set on a key that was absent has returned, and the other key, stored
\* before, holds the payload it held
C21_Witness ==
    /\ res.op = "set" /\ ~res.had
    /\ \E t \in Holders : map_len(Map(t)) = Cardinality(Keys)
    /\ \A k \in Keys : last[k].val # None
    /\ \A t \in Holders, k \in Keys :
          map_get(Map(t), as_bytes(k)) = Payload(last[k])
    /\ \A t \in Tasks : pc[t] = "idle"

\* C22: a get that returns a decode error changes no payload and no record
\* of a write, its read guard is dropped and its task goes on; and the call
\* that returns next is not hindered by it: a set, a delete or a len returns
\* Ok, a get of the same key finds the same payload, and one of the type the
\* value was stored as returns the value.
C22_FailedGetIsHarmless ==
    [][ res' # res =>
          /\ res'.op = "get" /\ res'.kind = "err" =>
                \A t \in res'.task :
                    /\ heap'[handle[t][1]].map = heap[handle[t][1]].map
                    /\ last' = last
                    /\ t \notin heap'[handle[t][1]].readers
                    /\ t \notin heap'[handle[t][1]].writers
                    /\ pc[t] = "get_body" /\ pc'[t] = "idle"
          /\ res.op = "get" /\ res.kind = "err" =>
                /\ res'.op \in {"set", "delete", "len"} => res'.kind = "ok"
                /\ res'.op = "len" => res'.n = res'.cnt
                /\ res'.op = "get" /\ res'.key = res.key =>
                      /\ res'.raw = res.raw
                      /\ res'.ty = res.saw.val[1].ty =>
                            res'.kind = "ok" /\ res'.val = res.saw.val
      ]_vars

\* a get has returned a decode error for a key that is stored, and a task
\* has since been granted the write lock
C22_Witness ==
    /\ res.op = "get" /\ res.kind = "err" /\ res.had
    /\ \A t \in res.task : pc[t] = "idle"
    /\ \E u \in Holders : pc[u] \in WritePcs /\ Store(u).writers = {u}
    /\ \A t \in Holders : map_get(Map(t), as_bytes(res.key)) = res.raw

----------------------------------------------------------------------------
(* Progress: every task holds a clone of one MemoryCache and makes call after
   call. A call joins the queue of the lock; the lock is granted to the task
   at the head of the queue as soon as its holders allow, so a reader that
   asks after a writer waits behind it. A task that can take a step is
   scheduled in the end. *)

ProgressKeys == {<<97>>}

\* a String, which a get of u8 finds too short: the task of the get panics
ProgressValues == {Str(<<233>>)}

ProgressInit ==
    /\ heap = <<NewStore>>
    /\ handle = [t \in Tasks |-> Some(1)]
    /\ pc = [t \in Tasks |-> "idle"]
    /\ frame = [t \in Tasks |-> NoFrame]
    /\ res = NoRes
    /\ last = [k \in Keys |-> NoWrite]
    /\ nops = 0
    /\ codec = NoCodec
    /\ remote = NoRemote

\* a call is made and asks for the lock
Queued(t, wait, f) ==
    /\ handle[t] # None /\ pc[t] = "idle"
    /\ heap' = [heap EXCEPT ![handle[t][1]].waiters = Append(@, t)]
    /\ pc' = [pc EXCEPT ![t] = wait]
    /\ frame' = [frame EXCEPT ![t] = f]
    /\ UNCHANGED <<handle, res, last, nops, codec, remote>>

get_queued(t, k, ty) ==
    Queued(t, "get_wait", [NoFrame EXCEPT !.key = k, !.ty = ty])

set_queued(t, k, v) ==
    Queued(t, "set_wait", [NoFrame EXCEPT !.key = k, !.ty = v.ty, !.val = Some(v),
                                          !.bytes = to_bytes(v)])

delete_queued(t, k) == Queued(t, "delete_wait", [NoFrame EXCEPT !.key = k])

len_queued(t) == Queued(t, "len_wait", NoFrame)

\* a lock that is granted to any task that waits, whatever its place
next_in_line_any(s, t) == \E i \in 1..Len(s.waiters) : s.waiters[i] = t

\* the lock is granted in the order it was asked for
next_in_line(s, t) == s.waiters # <<>> /\ Head(s.waiters) = t

\* read().await or write().await returns the guard to the task in line
Handed(t) ==
    /\ handle[t] # None /\ pc[t] \in WaitPcs
    /\ LET p == handle[t][1]
           s == heap[p]
           rest == SelectSeq(s.waiters, LAMBDA u : u # t)
       IN  /\ next_in_line(s, t)
           /\ IF pc[t] \in {"get_wait", "len_wait"}
              THEN /\ can_read(s)
                   /\ heap' = [heap EXCEPT ![p] =
                          [s EXCEPT !.readers = @ \cup {t}, !.waiters = rest]]
              ELSE /\ can_write(s)
                   /\ heap' = [heap EXCEPT ![p] =
                          [s EXCEPT !.writers = @ \cup {t}, !.waiters = rest]]
    /\ pc' = [pc EXCEPT ![t] =
          CASE pc[t] = "get_wait" -> "get_body"
            [] pc[t] = "set_wait" -> "set_insert"
            [] pc[t] = "delete_wait" -> "delete_body"
            [] pc[t] = "len_wait" -> "len_body"]
    /\ UNCHANGED <<handle, frame, res, last, nops, codec, remote>>

\* the steps of task t that need nothing but to be scheduled
Runs(t) ==
    \/ Handed(t)
    \/ get_body(t)
    \/ set_insert(t)
    \/ set_done(t)
    \/ delete_body(t)
    \/ len_body(t)

ProgressNext ==
    \/ \E t \in Tasks, k \in ProgressKeys, ty \in RemoteTypes : get_queued(t, k, ty)
    \/ \E t \in Tasks, k \in ProgressKeys, v \in ProgressValues : set_queued(t, k, v)
    \/ \E t \in Tasks, k \in ProgressKeys : delete_queued(t, k)
    \/ \E t \in Tasks : len_queued(t)
    \/ \E t \in Tasks : Handed(t)
    \/ \E t \in Tasks : get_body(t)
    \/ \E t \in Tasks : set_insert(t)
    \/ \E t \in Tasks : set_done(t)
    \/ \E t \in Tasks : delete_body(t)
    \/ \E t \in Tasks : len_body(t)

ProgressSpec ==
    /\ ProgressInit
    /\ [][ProgressNext]_vars
    /\ \A t \in Tasks : WF_vars(Runs(t))

\* the number of places task t has in the queue of the lock
Places(s, t) == Cardinality({i \in 1..Len(s.waiters) : s.waiters[i] = t})

HoldPcs == ReadPcs \cup WritePcs

\* C23: a call asks for the lock once and, while it holds it, waits for
\* nothing; so, every task being scheduled in the end, a call that waits for
\* the lock is granted it, and a call that holds the lock ends, by a return
\* or by the panic of its task, and holds the lock no more: no deadlock, and
\* no writer that waits for ever while readers come and go.
C23_Progress ==
    /\ [](\A t \in Tasks :
            /\ pc[t] \in WaitPcs =>
                  /\ Places(Store(t), t) = 1
                  /\ t \notin Store(t).readers \cup Store(t).writers
            /\ pc[t] \in HoldPcs =>
                  /\ Places(Store(t), t) = 0
                  /\ (t \in Store(t).readers) # (t \in Store(t).writers)
            /\ pc[t] \notin WaitPcs \cup HoldPcs =>
                  /\ Places(Store(t), t) = 0
                  /\ t \notin Store(t).readers \cup Store(t).writers)
    /\ \A t \in Tasks : (pc[t] \in WaitPcs) ~> (pc[t] \in HoldPcs)
    /\ \A t \in Tasks : (pc[t] \in HoldPcs) ~> (pc[t] \notin WaitPcs \cup HoldPcs)

\* a set waits at the head of the queue while a get holds the lock
C23_Witness ==
    \E t, u \in Tasks :
        /\ pc[t] = "get_body" /\ Store(t).readers = {t}
        /\ pc[u] = "set_wait" /\ Store(u).waiters = <<u>>

====
